---- MODULE Spec2Model ----
(***************************************************************************)
(* The /api/generate handler of app/routes.py (generate_paper) as a state  *)
(* machine: one request travels from the incoming payload through the      *)
(* generative call, the reconciliation against questionDistribution, the   *)
(* question-bank insert, the database fallback, the Paper / PaperQuestion  *)
(* inserts, the JSON snapshot, the PDF and the response.                   *)
(*                                                                         *)
(* Strings that the code inspects (type labels, question texts) are        *)
(* sequences of atoms; the atom " " is whitespace, so that str.strip() and *)
(* str.lower() are computed and not assumed.  A question dict is a record; *)
(* a key the dict does not carry is a field the record does not have.      *)
(***************************************************************************)
EXTENDS Integers, Sequences, FiniteSets, TLC

VARIABLES
    pc,              \* position of the request inside generate_paper
    qdist,           \* data["questionDistribution"], in insertion order
    topic_present,   \* bool(topic and topic.strip())
    chapters,        \* data["chapters"]
    attempts,        \* the models asked for the draft, in order, with the outcome
    raw_text,        \* response.text.strip() of the model that answered
    draft,           \* the parsed candidate list (json.loads result)
    questions,       \* the local list `questions`
    picked,          \* per quota entry, the candidates reconcile appended
    query,           \* the local `query` of the fallback loop
    fi,              \* index of the fallback loop over qdist.items()
    existing_question_texts,  \* the dedup set of the fallback loop
    next_id,         \* next autoincrement id of table questions
    bank,            \* committed rows of table questions
    papers,          \* committed rows of table papers
    paper_questions, \* committed rows of table paper_questions
    paper_id,        \* the request's paper_id
    pdf_name,        \* the request's pdf_filename
    snapshots,       \* static/papers/<paper_id>.json files
    pdf_files,       \* static/papers/paper_<timestamp>.pdf files
    response,        \* the JSON body returned to the caller
    db_error,        \* the insert whose flush or commit raised, if one did
    export_log,      \* what the export routes returned, per route and paper_id
    arg_label,       \* the argument of a call of _normalize_qtype
    ret_label,       \* what that call returned
    reqs,            \* per parallel request: position and locals from line 551 on
    clock            \* the second datetime.now() shows

vars == << pc, qdist, topic_present, chapters, attempts, raw_text, draft,
           questions, picked, query, fi, existing_question_texts, next_id,
           bank, papers, paper_questions, paper_id, pdf_name, snapshots,
           pdf_files, response, db_error, export_log, arg_label, ret_label, reqs, clock >>

-----------------------------------------------------------------------------
(* Bounds of the model *)

MaxEntries == 2     \* entries of questionDistribution
MaxCount == 2       \* largest requested count of one entry
MaxDraft == 2       \* candidates in the generative draft
MaxPapers == 2      \* stored papers after which no further request is served
MaxExports == 2     \* distinct export results kept in export_log
MaxPad == 2         \* blanks put before and after a label

-----------------------------------------------------------------------------
(* Strings *)

WS == " "

RECURSIVE lstrip(_)
lstrip(s) == IF s # << >> /\ Head(s) = WS THEN lstrip(Tail(s)) ELSE s

RECURSIVE rstrip(_)
rstrip(s) ==
    IF s # << >> /\ s[Len(s)] = WS THEN rstrip(SubSeq(s, 1, Len(s) - 1)) ELSE s

strip(s) == rstrip(lstrip(s))

lower_char(c) ==
    CASE c = "A" -> "a"
      [] c = "B" -> "b"
      [] OTHER -> c

lower(s) == [i \in DOMAIN s |-> lower_char(s[i])]

\* type labels
\* ret_label before _normalize_qtype was called
NoCall == << "<no call>" >>

\* stands for None where the code expects a string
NoneText == << "<None>" >>

MCQ == << "MCQ" >>
MultipleChoice == << "Multiple", " ", "Choice" >>
FillInTheBlanks == << "Fill", " ", "in", " ", "the", " ", "Blanks" >>
Fill == << "Fill" >>
ShortAnswer == << "Short", " ", "Answer" >>
Short == << "Short" >>
LongAnswer == << "Long", " ", "Answer" >>
Long == << "Long" >>
Matching == << "Matching" >>
Match == << "Match" >>
MatchTheFollowing == << "Match", " ", "the", " ", "Following" >>
CaseStudy == << "Case", " ", "Study" >>
Case == << "Case" >>
Essay == << "Essay" >>

normalize_qtype_default(lbl) ==
    LET label == strip(IF lbl = NoneText THEN << >> ELSE lbl) IN
    IF label \in {MCQ, MultipleChoice} THEN MCQ
    ELSE IF label \in {FillInTheBlanks, Fill} THEN FillInTheBlanks
    ELSE IF label \in {LongAnswer, Long} THEN LongAnswer
    ELSE IF label \in {Matching, Match, MatchTheFollowing} THEN Matching
    ELSE IF label \in {CaseStudy, Case} THEN CaseStudy
    ELSE ShortAnswer

normalize_qtype_nocase(lbl) ==
    LET label == strip(IF lbl = NoneText THEN << >> ELSE lbl) IN
    IF label \in {MCQ, MultipleChoice, << "mcq" >>} THEN MCQ
    ELSE IF label \in {FillInTheBlanks, Fill} THEN FillInTheBlanks
    ELSE IF label \in {ShortAnswer, Short} THEN ShortAnswer
    ELSE IF label \in {LongAnswer, Long} THEN LongAnswer
    ELSE IF label \in {Matching, Match, MatchTheFollowing} THEN Matching
    ELSE IF label \in {CaseStudy, Case} THEN CaseStudy
    ELSE label

\* lines 155-163
normalize_qtype(lbl) ==
    LET label == strip(IF lbl = NoneText THEN << >> ELSE lbl) IN
    IF label \in {MCQ, MultipleChoice} THEN MCQ
    ELSE IF label \in {FillInTheBlanks, Fill} THEN FillInTheBlanks
    ELSE IF label \in {ShortAnswer, Short} THEN ShortAnswer
    ELSE IF label \in {LongAnswer, Long} THEN LongAnswer
    ELSE IF label \in {Matching, Match, MatchTheFollowing} THEN Matching
    ELSE IF label \in {CaseStudy, Case} THEN CaseStudy
    ELSE label

-----------------------------------------------------------------------------
(* The request and its surroundings.  The metadata of the payload that the *)
(* modelled code only copies (school, exam name, difficulty) is left out.  *)

subject == "Math"
class_ == "10"
board == "CBSE"
paper_language == "english"

\* rows of table chapters, joined with their subject, class and board
ChapterTable ==
    { [chapter_id |-> 1, title_en |-> "Ch1", subject |-> "Math",
       class_number |-> "10", board |-> "CBSE"],
      [chapter_id |-> 2, title_en |-> "Ch2", subject |-> "Science",
       class_number |-> "10", board |-> "CBSE"] }

\* (topic_present, data["chapters"]) of a request: neither; a chapter of the
\* subject; a chapter of another subject; a topic
RequestScopes ==
    { [topic_present |-> FALSE, chapters |-> << >>],
      [topic_present |-> FALSE, chapters |-> << "Ch1" >>],
      [topic_present |-> FALSE, chapters |-> << "Ch2" >>],
      [topic_present |-> TRUE, chapters |-> << >>] }

\* question texts
TextAB == << "a", " ", "b" >>
TextPadAB == << " ", "A", " ", "b" >>        \* strip().lower() gives TextAB
TextWideAB == << "a", " ", " ", "b" >>       \* a run of two blanks inside
TextC == << "c" >>
TextD == << "d" >>

OptionPool == << "o1", "o2", "o3", "o4", "o5", "o6" >>
Options(n) == SubSeq(OptionPool, 1, n)

\* info = {"count": c, "marks": m} of one questionDistribution entry
CountMarks ==
    { [count |-> c, marks |-> 1] : c \in 0 .. MaxCount }
    \cup { [count |-> -1, marks |-> 1], [count |-> 1, marks |-> 0] }

QuotaLabels == { MCQ, MultipleChoice, Short, Essay }

QuotaEntries ==
    { [label |-> l, count |-> cm.count, marks |-> cm.marks] :
        l \in QuotaLabels, cm \in CountMarks }

\* a dict has one entry per key
DistinctLabels(qd) ==
    \A i, j \in DOMAIN qd : i # j => qd[i].label # qd[j].label

Quotas ==
    { qd \in UNION { [1 .. n -> QuotaEntries] : n \in 0 .. MaxEntries } :
        DistinctLabels(qd) }

\* question objects the generative source may put into its JSON array
DraftItems ==
    { [type |-> MultipleChoice, question |-> TextAB, options |-> Options(4), marks |-> 1,
       difficulty |-> "Easy", answer |-> "o1"],
      [type |-> MultipleChoice, question |-> TextPadAB, options |-> Options(2), marks |-> 1,
       difficulty |-> "Easy", answer |-> "o2"],
      [type |-> MultipleChoice, question |-> TextWideAB, options |-> Options(6), marks |-> 1,
       difficulty |-> "Hard", answer |-> "o1"],
      [type |-> MCQ, question |-> TextC, options |-> Options(0), marks |-> 2,
       answer |-> "o1"],
      [type |-> << " ", "Short" >>, question |-> TextC, options |-> Options(0), marks |-> 3,
       difficulty |-> "Medium"],
      [type |-> Essay, question |-> TextWideAB, options |-> Options(0), marks |-> 5,
       difficulty |-> "Hard", answer |-> "text"] }

Drafts == UNION { [1 .. n -> DraftItems] : n \in 0 .. MaxDraft }

\* what json.loads makes of a text: JSONDecodeError, a list of question
\* objects, a list of other values, a dict with keys, an empty dict
Invalid == [kind |-> "invalid"]
JsonArray(items) == [kind |-> "array", items |-> items]
JsonScalars == [kind |-> "scalars"]
JsonObject == [kind |-> "object"]
EmptyObject == [kind |-> "empty_object"]

\* the text holds no ```json ... ``` block
NoFence == [kind |-> "nofence"]

\* response.text.strip(), given by what json.loads makes of the whole text
\* and of the first ```json block in it
RawTexts ==
    { [whole |-> JsonArray(d), fence |-> NoFence] : d \in Drafts }
    \cup { [whole |-> Invalid, fence |-> JsonArray(d)] :
              d \in { x \in Drafts : Len(x) <= 1 } }
    \cup { [whole |-> JsonArray(<< >>),
            fence |-> JsonArray(<< [type |-> MCQ, question |-> TextC,
                                    options |-> Options(0), marks |-> 2,
                                    answer |-> "o1"] >>)],
           [whole |-> Invalid, fence |-> NoFence],
           [whole |-> Invalid, fence |-> Invalid],
           [whole |-> Invalid, fence |-> JsonObject],
           [whole |-> JsonObject, fence |-> NoFence],
           [whole |-> JsonScalars, fence |-> NoFence],
           [whole |-> EmptyObject, fence |-> NoFence] }

NoRaw == [whole |-> [kind |-> "none"], fence |-> NoFence]

-----------------------------------------------------------------------------
(* Reconciliation of the draft against questionDistribution *)

SetField(q, k, v) == (k :> v) @@ q

HasKey(q, k) == k \in DOMAIN q

question_hash_raw(q) == q.question

\* line 395: hash(q.get("question", "").strip().lower()); CPython's str hash
\* is taken to be free of collisions on the texts of the model
question_hash(q) == lower(strip(q.question))

\* lines 374-375
annotate(qs) ==
    [i \in DOMAIN qs |-> SetField(qs[i], "question_type", normalize_qtype(qs[i].type))]

enough_off_by_one(added_count, count_needed) == added_count > count_needed

\* line 391
enough(added_count, count_needed) == added_count >= count_needed

\* lines 388-399: the inner loop over type_questions
RECURSIVE add_balanced(_, _, _, _)
add_balanced(type_questions, count_needed, used, added) ==
    IF type_questions = << >> \/ enough(Len(added), count_needed)
    THEN [added |-> added, used |-> used]
    ELSE LET q == Head(type_questions)
             h == question_hash(q)
         IN  IF h \notin used
             THEN add_balanced(Tail(type_questions), count_needed,
                               used \cup {h}, Append(added, q))
             ELSE add_balanced(Tail(type_questions), count_needed, used, added)

\* lines 381-399: the outer loop over qdist.items(); the result lists, per
\* entry, the candidates appended to balanced_questions
RECURSIVE balance(_, _, _, _)
balance(entries, qs, used, acc) ==
    IF entries = << >> THEN acc
    ELSE LET info == Head(entries)
             normalized_type == normalize_qtype(info.label)
             type_questions ==
                 SelectSeq(qs, LAMBDA q : q.question_type = normalized_type)
             r == add_balanced(type_questions, info.count, used, << >>)
         IN  balance(Tail(entries), qs, r.used, Append(acc, r.added))

RECURSIVE Flatten(_)
Flatten(ss) == IF ss = << >> THEN << >> ELSE Head(ss) \o Flatten(Tail(ss))

-----------------------------------------------------------------------------
(* Tables *)

\* rows of table questions present before the request
InitialBank ==
    { [id |-> 1, chapter_id |-> 1, question_type |-> MCQ, marks |-> 1,
       question_text |-> TextPadAB, options |-> Options(4),
       language |-> "english", source |-> "AI",
       difficulty |-> "Medium", answer |-> "key"],
      [id |-> 2, chapter_id |-> 1, question_type |-> MCQ, marks |-> 1,
       question_text |-> TextD, options |-> Options(4),
       language |-> "english", source |-> "Manual",
       difficulty |-> "Medium", answer |-> "key"],
      [id |-> 3, chapter_id |-> 1, question_type |-> ShortAnswer, marks |-> 1,
       question_text |-> TextD, options |-> Options(0),
       language |-> "english", source |-> "Manual",
       difficulty |-> "Medium", answer |-> "key"],
      [id |-> 4, chapter_id |-> 1, question_type |-> MCQ, marks |-> 1,
       question_text |-> TextC, options |-> Options(4),
       language |-> "hindi", source |-> "Manual",
       difficulty |-> "Medium", answer |-> "key"],
      [id |-> 5, chapter_id |-> 2, question_type |-> MCQ, marks |-> 1,
       question_text |-> TextC, options |-> Options(4),
       language |-> "english", source |-> "Manual",
       difficulty |-> "Medium", answer |-> "key"],
      [id |-> 6, chapter_id |-> 1, question_type |-> ShortAnswer, marks |-> 3,
       question_text |-> TextC, options |-> Options(0),
       language |-> "english", source |-> "Manual",
       difficulty |-> "Medium", answer |-> "key"],
      [id |-> 7, chapter_id |-> 1, question_type |-> Essay, marks |-> 1,
       question_text |-> TextD, options |-> Options(0),
       language |-> "english", source |-> "AI",
       difficulty |-> "Medium", answer |-> "key"] }

Unbound == [bound |-> FALSE]

NoPaper == "none"

\* None in a column or a JSON field of a string
NoneString == "<None>"

NoResponse == [status |-> 0]

MaxRequests == 2

\* the requests that run in parallel
Requests == 1 .. MaxRequests

\* a request that has not arrived
IdleRequest ==
    [pc |-> "Idle", questions |-> << >>, paper_id |-> NoPaper,
     pdf_name |-> NoPaper, response |-> NoResponse]

Init ==
    /\ pc = "Idle"
    /\ qdist = << >>
    /\ topic_present = FALSE
    /\ chapters = << >>
    /\ attempts = << >>
    /\ raw_text = NoRaw
    /\ draft = << >>
    /\ questions = << >>
    /\ picked = << >>
    /\ query = Unbound
    /\ fi = 0
    /\ existing_question_texts = {}
    /\ next_id = 8
    /\ bank = InitialBank
    /\ papers = {}
    /\ paper_questions = << >>
    /\ paper_id = NoPaper
    /\ pdf_name = NoPaper
    /\ snapshots = << >>
    /\ pdf_files = << >>
    /\ response = NoResponse
    /\ db_error = "none"
    /\ export_log = {}
    /\ arg_label = NoneText
    /\ ret_label = NoCall
    /\ reqs = [r \in Requests |-> IdleRequest]
    /\ clock = 1

-----------------------------------------------------------------------------
(* generate_paper, lines 166-453: the payload, the generative call, the    *)
(* draft and its reconciliation, the insert into the bank                  *)

\* lines 167-183
Receive ==
    /\ pc = "Idle"
    /\ \E qd \in Quotas, sc \in RequestScopes :
          /\ qdist' = qd
          /\ topic_present' = sc.topic_present
          /\ chapters' = sc.chapters
    /\ pc' = "Requested"
    /\ UNCHANGED << attempts, raw_text, draft, questions, picked, query, fi,
                    existing_question_texts, next_id, bank, papers,
                    paper_questions, paper_id, pdf_name, snapshots, pdf_files, response,
                    db_error, export_log,
                    arg_label, ret_label, reqs, clock >>

\* lines 196-202: the outcome of the API key test is only logged
ApiKeyTest ==
    /\ pc = "Requested"
    /\ pc' = "Generating"
    /\ UNCHANGED << qdist, topic_present, chapters, attempts, raw_text, draft,
                    questions, picked, query, fi, existing_question_texts,
                    next_id, bank, papers, paper_questions, paper_id, pdf_name,
                    snapshots, pdf_files, response,
                    db_error, export_log,
                    arg_label, ret_label, reqs, clock >>

\* lines 335, 345, 354
ModelChain ==
    << "models/gemini-flash-latest", "models/gemini-pro-latest",
       "models/gemini-2.0-flash" >>

NextModel_same(tried) == ModelChain[1]

\* the model to ask after the attempts made so far: the nesting of the try
\* blocks of lines 333-360
NextModel(tried) == ModelChain[Len(tried) + 1]

\* lines 337-339, 346-348, 355-357: the model asked answers
GenerateOk ==
    /\ pc = "Generating"
    /\ Len(attempts) < Len(ModelChain)
    /\ attempts' = Append(attempts, [model |-> NextModel(attempts), ok |-> TRUE])
    /\ \E raw \in RawTexts : raw_text' = raw
    /\ pc' = "Responded"
    /\ UNCHANGED << qdist, topic_present, chapters, draft, questions, picked,
                    query, fi, existing_question_texts, next_id, bank, papers,
                    paper_questions, paper_id, pdf_name, snapshots, pdf_files, response,
                    db_error, export_log,
                    arg_label, ret_label, reqs, clock >>

\* lines 340-360 and 450-453: the model asked raises; the next one is asked,
\* and after the last one the exception reaches the handler's except clause
GenerateFail ==
    /\ pc = "Generating"
    /\ Len(attempts) < Len(ModelChain)
    /\ attempts' = Append(attempts, [model |-> NextModel(attempts), ok |-> FALSE])
    /\ pc' = IF Len(attempts') = Len(ModelChain) THEN "Fallback" ELSE "Generating"
    /\ questions' = << >>
    /\ UNCHANGED << qdist, topic_present, chapters, raw_text, draft, picked,
                    query, fi, existing_question_texts, next_id, bank, papers,
                    paper_questions, paper_id, pdf_name, snapshots, pdf_files, response,
                    db_error, export_log,
                    arg_label, ret_label, reqs, clock >>

\* lines 365-375: json.loads of the text; on JSONDecodeError json.loads of
\* the ```json block, or ValueError when there is none; then the loop of
\* lines 374-375, which raises TypeError on the keys of a dict and on list
\* elements that are no objects and does nothing on an empty dict
parse(raw) ==
    LET direct == raw.whole.kind # "invalid"
        loaded == IF direct THEN raw.whole ELSE raw.fence
        path == IF direct THEN "direct"
                ELSE IF raw.fence.kind = "nofence" THEN "none" ELSE "fenced"
    IN  IF loaded.kind = "array"
        THEN [ok |-> TRUE, path |-> path, value |-> loaded.items]
        ELSE IF loaded.kind = "empty_object"
        THEN [ok |-> TRUE, path |-> path, value |-> << >>]
        ELSE [ok |-> FALSE, path |-> path, value |-> << >>]

\* lines 365-375, and 450-453 when the text is no usable array.  raw_text
\* stays bound; the model drops it when the questions of the draft are saved.
ParseDraft ==
    /\ pc = "Responded"
    /\ LET r == parse(raw_text) IN
          /\ draft' = r.value
          /\ pc' = IF r.ok THEN "Drafted" ELSE "Fallback"
    /\ questions' = << >>
    /\ UNCHANGED << qdist, topic_present, chapters, attempts, raw_text, picked, query,
                    fi, existing_question_texts, next_id, bank, papers,
                    paper_questions, paper_id, pdf_name, snapshots, pdf_files, response,
                    db_error, export_log,
                    arg_label, ret_label, reqs, clock >>

\* lines 374-401
reconcile(qd, candidates) == balance(qd, annotate(candidates), {}, << >>)

Reconcile ==
    /\ pc = "Drafted"
    /\ picked' = reconcile(qdist, draft)
    /\ questions' = Flatten(picked')
    /\ pc' = "Reconciled"
    /\ UNCHANGED << qdist, topic_present, chapters, attempts, raw_text, draft,
                    query, fi, existing_question_texts, next_id, bank, papers,
                    paper_questions, paper_id, pdf_name, snapshots, pdf_files, response,
                    db_error, export_log,
                    arg_label, ret_label, reqs, clock >>

\* lines 406-416; 0 stands for None
first_chapter_id ==
    IF ~topic_present /\ chapters # << >>
    THEN LET found == { c \in ChapterTable :
                          /\ c.board = board
                          /\ c.class_number = class_
                          /\ c.subject = subject
                          /\ c.title_en = chapters[1] }
         IN  IF found = {} THEN 0 ELSE (CHOOSE c \in found : TRUE).chapter_id
    ELSE 0

\* lines 432 and 426-437: the Question row built from candidate q
new_question(q, id, chapter) ==
    LET q_type == normalize_qtype(q.type) IN
    [id |-> id, chapter_id |-> chapter, question_type |-> q_type,
     marks |-> q.marks, question_text |-> q.question,
     options |-> IF q_type = MCQ THEN q.options ELSE << >>,
     language |-> paper_language, source |-> "AI",
     difficulty |-> IF HasKey(q, "difficulty") THEN q.difficulty ELSE NoneString,
     answer |-> IF HasKey(q, "answer") THEN q.answer ELSE "Not provided"]

\* lines 420-445: the candidate as it leaves the loop
processed_question(q, id, chapter) ==
    LET q1 == IF chapter # 0 THEN SetField(q, "id", id) ELSE q
        q2 == SetField(q1, "source", "AI")
        q3 == SetField(q2, "question_type", normalize_qtype(q.type))
    IN  SetField(q3, "question_text", q.question)

rollback_keep(pending) == pending

\* line 452, db.session.rollback(): the rows added and flushed since the last
\* commit are discarded; what is left of them in the table
rollback(pending) == {}

\* lines 419-448 with the commit succeeding, and 450-453 with the flush or
\* the commit raising: rollback, questions = []
SaveQuestions ==
    /\ pc = "Reconciled"
    /\ \E ok \in BOOLEAN :
          IF ok
          THEN /\ questions' =
                     [i \in DOMAIN questions |->
                         processed_question(questions[i], next_id + i - 1,
                                            first_chapter_id)]
               /\ bank' = IF first_chapter_id # 0
                          THEN bank \cup
                               { new_question(questions[i], next_id + i - 1,
                                              first_chapter_id) :
                                   i \in DOMAIN questions }
                          ELSE bank
               /\ next_id' = IF first_chapter_id # 0
                             THEN next_id + Len(questions) ELSE next_id
               /\ db_error' = db_error
          ELSE \E k \in 0 .. Len(questions) :
               /\ questions' = << >>
               /\ db_error' = "questions"
               /\ bank' = bank \cup
                          rollback(IF first_chapter_id # 0
                                   THEN { new_question(questions[i], next_id + i - 1,
                                                       first_chapter_id) :
                                            i \in 1 .. k }
                                   ELSE {})
               /\ next_id' = next_id
    /\ raw_text' = NoRaw
    /\ draft' = << >>
    /\ picked' = << >>
    /\ pc' = "Fallback"
    /\ UNCHANGED << qdist, topic_present, chapters, attempts, query,
                    fi, existing_question_texts, papers, paper_questions,
                    paper_id, pdf_name, snapshots, pdf_files, response, export_log,
                    arg_label, ret_label, reqs, clock >>

-----------------------------------------------------------------------------
(* generate_paper, lines 455-550: the fallback to the question bank and    *)
(* the basic questions of last resort                                      *)

RECURSIVE SumCounts(_)
SumCounts(qd) == IF qd = << >> THEN 0 ELSE Head(qd).count + SumCounts(Tail(qd))

\* line 456
total_needed == SumCounts(qdist)

Range(seq) == { seq[i] : i \in DOMAIN seq }

Max(a, b) == IF a >= b THEN a ELSE b

Min(a, b) == IF a <= b THEN a ELSE b

\* the body returned with an unhandled exception
ServerError == [status |-> 500]

\* lines 456-460
FallbackStart ==
    /\ pc = "Fallback"
    /\ existing_question_texts' =
           { lower(strip(questions[i].question_text)) : i \in DOMAIN questions }
    /\ query' = Unbound
    /\ IF Len(questions) < total_needed
       THEN pc' = "BankLoop" /\ fi' = 1
       ELSE pc' = "Compose" /\ fi' = 0
    /\ UNCHANGED << qdist, topic_present, chapters, attempts, raw_text, draft,
                    questions, picked, next_id, bank, papers, paper_questions,
                    paper_id, pdf_name, snapshots, pdf_files, response,
                    db_error, export_log,
                    arg_label, ret_label, reqs, clock >>

\* line 469
picked_count(qs, normalized_type) ==
    Cardinality({ i \in DOMAIN qs : qs[i].question_type = normalized_type })

\* line 470
missing_for_type(qs, info) ==
    Max(0, info.count - picked_count(qs, normalize_qtype(info.label)))

\* lines 474-478
base_query(info) ==
    [bound |-> TRUE, question_type |-> normalize_qtype(info.label),
     marks |-> info.marks, language |-> paper_language, filters |-> << >>]

\* lines 483-485
chapter_id_list ==
    { c.chapter_id : c \in { x \in ChapterTable : x.title_en \in Range(chapters) } }

\* lines 488-500: the scope filter put on the query
scope_filter ==
    IF chapter_id_list # {} THEN "chapter_id"
    ELSE IF topic_present THEN "topic"
    ELSE "subject_class"

\* rows of table questions that a query of the subject and class scope
\* matches (lines 474-478 and 496-500)
matching_rows(q) ==
    { r \in bank :
        /\ r.question_type = q.question_type
        /\ r.marks = q.marks
        /\ r.language = q.language
        /\ \E c \in ChapterTable :
              /\ c.chapter_id = r.chapter_id
              /\ c.subject = subject
              /\ c.class_number = class_ }

\* order_by(func.rand()).limit(n).all(): any n rows in any order
Orderings(S, n) ==
    { o \in [1 .. n -> S] : \A i, j \in 1 .. n : i # j => o[i] # o[j] }

\* Question.as_dict (models.py 56-73) and lines 518-521
as_dict(r) ==
    [id |-> r.id, question_type |-> r.question_type, marks |-> r.marks,
     question_text |-> r.question_text, options |-> r.options,
     source |-> "Database", language |-> r.language,
     difficulty |-> r.difficulty, answer |-> r.answer]

\* lines 511-524
RECURSIVE add_from_db(_, _, _, _)
add_from_db(db_questions, missing, existing, added) ==
    IF db_questions = << >> \/ Len(added) >= missing
    THEN [added |-> added, existing |-> existing]
    ELSE LET q == Head(db_questions)
             question_text == lower(strip(q.question_text))
         IN  IF question_text \notin existing
             THEN add_from_db(Tail(db_questions), missing,
                              existing \cup {question_text},
                              Append(added, as_dict(q)))
             ELSE add_from_db(Tail(db_questions), missing, existing, added)

\* what one pass of the loop does with the rows fetched
BankAdvance(added, existing, q) ==
    /\ questions' = questions \o added
    /\ existing_question_texts' = existing
    /\ query' = q
    /\ fi' = fi + 1
    /\ pc' = IF fi = Len(qdist) THEN "Synth" ELSE "BankLoop"
    /\ response' = response

\* an exception leaves the handler: lines 455-550 stand in no try block
BankAbort ==
    /\ pc' = "Crashed"
    /\ response' = ServerError
    /\ UNCHANGED << questions, existing_question_texts, query, fi,
                    db_error, export_log,
                    arg_label, ret_label, reqs, clock >>

\* lines 461-527: one pass of the loop over qdist.items().  `query` is
\* assigned only when the entry misses questions (line 472); the lines after
\* it read `query` in every pass.  With no earlier assignment that read
\* raises UnboundLocalError.  With an earlier one the query of an earlier
\* entry is joined a second time and run with LIMIT 0: the ORM or the
\* database may refuse the repeated join, or return no row.
BankStep ==
    /\ pc = "BankLoop"
    /\ fi \in DOMAIN qdist
    /\ LET info == qdist[fi]
           missing == missing_for_type(questions, info)
           q0 == IF missing > 0 THEN base_query(info) ELSE query
       IN  IF ~q0.bound
           THEN BankAbort
           ELSE LET q1 == [q0 EXCEPT !.filters = Append(@, scope_filter)] IN
                IF scope_filter # "subject_class"
                THEN BankAdvance(<< >>, existing_question_texts, q1)
                ELSE IF Len(q1.filters) > 1
                THEN \/ BankAbort
                     \/ BankAdvance(<< >>, existing_question_texts, q1)
                ELSE \E db_questions \in
                         Orderings(matching_rows(q1),
                                   Min(missing * 2, Cardinality(matching_rows(q1)))) :
                       LET r == add_from_db(db_questions, missing,
                                            existing_question_texts, << >>)
                       IN  BankAdvance(r.added, r.existing, q1)
    /\ UNCHANGED << qdist, topic_present, chapters, attempts, raw_text, draft,
                    picked, next_id, bank, papers, paper_questions, paper_id, pdf_name,
                    snapshots, pdf_files,
                    db_error, export_log,
                    arg_label, ret_label, reqs, clock >>

missing_count_short(qs) == total_needed - Len(qs) - 1

\* line 532
missing_count(qs) == total_needed - Len(qs)

SynthText == << "Explain", " ", "Math", " ", "10" >>

basic_question_mcq ==
    [type |-> MCQ, question_type |-> MCQ, question |-> SynthText,
     marks |-> 1, source |-> "Fallback", language |-> paper_language,
     options |-> << >>, difficulty |-> "Medium",
     answer |-> "Answer would depend on the specific topic."]

\* lines 536-547
basic_question ==
    [type |-> Short, question_type |-> ShortAnswer, question |-> SynthText,
     marks |-> 3, source |-> "Fallback", language |-> paper_language,
     options |-> << >>, difficulty |-> "Medium",
     answer |-> "Answer would depend on the specific topic."]

\* lines 530-548
Synthesize ==
    /\ pc = "Synth"
    /\ questions' =
           IF Len(questions) < total_needed
           THEN questions \o [i \in 1 .. missing_count(questions) |-> basic_question]
           ELSE questions
    /\ pc' = "Compose"
    /\ UNCHANGED << qdist, topic_present, chapters, attempts, raw_text, draft,
                    picked, query, fi, existing_question_texts, next_id, bank,
                    papers, paper_questions, paper_id, pdf_name, snapshots, pdf_files,
                    response,
                    db_error, export_log,
                    arg_label, ret_label, reqs, clock >>

-----------------------------------------------------------------------------
(* generate_paper, lines 551-791: the Paper and PaperQuestion rows, the    *)
(* snapshot, the PDF and the response                                      *)

\* str(uuid.uuid4())[:8]
PaperIds == { "a1b2c3d4", "e5f6a7b8" }

\* datetime.now().strftime('%Y%m%d_%H%M%S')
Timestamps == { "20261105_101500" }

\* a field read with dict.get that the dict does not carry; an id of 0

RECURSIVE SumMarks(_)
SumMarks(qs) == IF qs = << >> THEN 0 ELSE Head(qs).marks + SumMarks(Tail(qs))

\* lines 556-568
paper_entry(id, now, qs) ==
    [paper_id |-> id, total_questions |-> Len(qs), total_marks |-> SumMarks(qs),
     pdf_path |-> now]

\* lines 551-571: add the Paper row and commit; the commit may raise, and
\* the exception leaves the handler
PersistPaper ==
    /\ pc = "Compose"
    /\ \E id \in PaperIds, now \in Timestamps, ok \in BOOLEAN :
          /\ paper_id' = id
          /\ pdf_name' = now
          /\ IF ok /\ id \notin { p.paper_id : p \in papers }
             THEN /\ papers' = papers \cup { paper_entry(id, now, questions) }
                  /\ pc' = "PaperSaved"
                  /\ response' = response
                  /\ db_error' = db_error
             ELSE /\ papers' = papers
                  /\ pc' = "Failed"
                  /\ response' = ServerError
                  /\ db_error' = "paper"
    /\ UNCHANGED << qdist, topic_present, chapters, attempts, raw_text, draft,
                    questions, picked, query, fi, existing_question_texts,
                    next_id, bank, paper_questions, snapshots, pdf_files, export_log,
                    arg_label, ret_label, reqs, clock >>

\* lines 574-582
paper_question(id, q) ==
    [paper_id |-> id,
     question_id |-> IF HasKey(q, "id") THEN q.id ELSE 0,
     question_text |-> IF HasKey(q, "question_text") THEN q.question_text ELSE NoneText,
     type |-> q.question_type,
     marks |-> q.marks,
     options |-> q.options,
     difficulty |-> IF HasKey(q, "difficulty") THEN q.difficulty ELSE NoneString,
     answer |-> IF HasKey(q, "answer") THEN q.answer ELSE "Not provided"]

\* lines 573-584: add the PaperQuestion rows and commit; the commit may
\* raise, and the exception leaves the handler with the Paper row committed
PersistPaperQuestions ==
    /\ pc = "PaperSaved"
    /\ \E ok \in BOOLEAN :
          IF ok
          THEN /\ paper_questions' =
                     paper_questions \o
                     [i \in DOMAIN questions |-> paper_question(paper_id, questions[i])]
               /\ pc' = "Persisted"
               /\ response' = response
               /\ db_error' = db_error
          ELSE /\ paper_questions' = paper_questions
               /\ pc' = "Failed"
               /\ response' = ServerError
               /\ db_error' = "paper_questions"
    /\ UNCHANGED << qdist, topic_present, chapters, attempts, raw_text, draft,
                    questions, picked, query, fi, existing_question_texts,
                    next_id, bank, papers, paper_id, pdf_name, snapshots,
                    pdf_files, export_log,
                    arg_label, ret_label, reqs, clock >>

RECURSIVE SumQuotaMarks(_)
SumQuotaMarks(qd) ==
    IF qd = << >> THEN 0
    ELSE Head(qd).count * Head(qd).marks + SumQuotaMarks(Tail(qd))

summary_from_quota(qs) ==
    [total_questions |-> total_needed, total_marks |-> SumQuotaMarks(qdist)]

\* lines 590-593
summary(qs) == [total_questions |-> Len(qs), total_marks |-> SumMarks(qs)]

\* line 595
type_order ==
    << MCQ, MultipleChoice, FillInTheBlanks, Fill, ShortAnswer, Short,
       LongAnswer, Long, Matching, Match, MatchTheFollowing, CaseStudy, Case >>

\* q.get("type") or q.get("question_type") or ""
type_or_question_type(q) ==
    IF HasKey(q, "type") /\ q.type # << >> THEN q.type
    ELSE IF HasKey(q, "question_type") THEN q.question_type
    ELSE << >>

get_type_order_unstripped(q) ==
    LET t == type_or_question_type(q)
        at == { i \in DOMAIN type_order : type_order[i] = t }
    IN  IF at = {} THEN Len(type_order)
        ELSE (CHOOSE i \in at : \A j \in at : i <= j) - 1

\* lines 596-599
get_type_order(q) ==
    LET t == strip(type_or_question_type(q))
        at == { i \in DOMAIN type_order : type_order[i] = t }
    IN  IF at = {} THEN Len(type_order)
        ELSE (CHOOSE i \in at : \A j \in at : i <= j) - 1

\* the items of qs whose key is k or more, keys in increasing order, items
\* of one key in the order of qs
RECURSIVE sorted_from(_, _)
sorted_from(qs, k) ==
    IF k > Len(type_order) THEN << >>
    ELSE SelectSeq(qs, LAMBDA q : get_type_order(q) = k) \o sorted_from(qs, k + 1)

\* line 600: sorted(questions, key=get_type_order), a stable sort
questions_sorted(qs) == sorted_from(qs, 0)

\* lines 602-607
snapshot(id, qs) ==
    [paper_id |-> id, questions |-> questions_sorted(qs), summary |-> summary(qs)]

WriteSnapshot ==
    /\ pc = "Persisted"
    /\ snapshots' = (paper_id :> snapshot(paper_id, questions)) @@ snapshots
    /\ pc' = "Snapshot"
    /\ UNCHANGED << qdist, topic_present, chapters, attempts, raw_text, draft,
                    questions, picked, query, fi, existing_question_texts,
                    next_id, bank, papers, paper_questions, paper_id, pdf_name,
                    pdf_files, response,
                    db_error, export_log,
                    arg_label, ret_label, reqs, clock >>

\* lines 616-619: the keys of `sections`, in the order of the dict
section_keys ==
    << MultipleChoice, FillInTheBlanks, ShortAnswer, LongAnswer, Matching,
       CaseStudy >>

\* lines 629-630
section_of(q) ==
    LET q_type == normalize_qtype(q.question_type) IN
    IF q_type = MCQ THEN MultipleChoice ELSE q_type

\* lines 731-746: the inner loop of the template over one section's list;
\* q_num is increased after every question
number_from(q_list, q_num) ==
    [i \in DOMAIN q_list |->
        [q_num |-> q_num + i - 1,
         section |-> section_of(q_list[i]),
         question_text |-> IF HasKey(q_list[i], "question_text")
                           THEN q_list[i].question_text ELSE << >>,
         marks |-> q_list[i].marks,
         options |-> IF q_list[i].question_type = MCQ
                     THEN q_list[i].options ELSE << >>]]

\* lines 628-632 and 725-750: the sections in the order of the keys, each
\* holding the questions of its key; a question whose section is no key is
\* in none.  q_num is set once, before the loop over the sections.
RECURSIVE render_sections(_, _, _)
render_sections(qs, k, q_num) ==
    IF k > Len(section_keys) THEN << >>
    ELSE LET q_list == SelectSeq(qs, LAMBDA q : section_of(q) = section_keys[k])
         IN  number_from(q_list, q_num)
             \o render_sections(qs, k + 1, q_num + Len(q_list))

render_questions(qs) == render_sections(qs, 1, 1)

\* lines 616-778
RenderPdf ==
    /\ pc = "Snapshot"
    /\ pdf_files' = (pdf_name :> render_questions(questions_sorted(questions)))
                    @@ pdf_files
    /\ pc' = "Rendered"
    /\ UNCHANGED << qdist, topic_present, chapters, attempts, raw_text, draft,
                    questions, picked, query, fi, existing_question_texts,
                    next_id, bank, papers, paper_questions, paper_id, pdf_name,
                    snapshots, response,
                    db_error, export_log,
                    arg_label, ret_label, reqs, clock >>

\* lines 782-786
response_question(q) ==
    [id |-> IF HasKey(q, "id") THEN q.id ELSE 0,
     question_text |-> IF HasKey(q, "question_text") THEN q.question_text ELSE NoneText,
     marks |-> q.marks,
     difficulty |-> IF HasKey(q, "difficulty") THEN q.difficulty ELSE NoneString,
     type |-> type_or_question_type(q),
     source |-> q.source]

\* lines 781-791: the body of the 200 response
response_body(qs, pdf_filename, id) ==
    [status |-> 200,
     questions |-> LET sorted == questions_sorted(qs) IN
                   [i \in DOMAIN sorted |-> response_question(sorted[i])],
     summary |-> summary(qs),
     pdf_url |-> pdf_filename,
     word_url |-> id,
     answer_key_url |-> id]

\* lines 781-791
Respond ==
    /\ pc = "Rendered"
    /\ response' = response_body(questions, pdf_name, paper_id)
    /\ pc' = "Done"
    /\ UNCHANGED << qdist, topic_present, chapters, attempts, raw_text, draft,
                    questions, picked, query, fi, existing_question_texts,
                    next_id, bank, papers, paper_questions, paper_id, pdf_name,
                    snapshots, pdf_files,
                    db_error, export_log,
                    arg_label, ret_label, reqs, clock >>

-----------------------------------------------------------------------------
(* download_word and download_answer_key, lines 794-894, and the server    *)
(* taking the next generation request                                      *)

NotFound == [status |-> 404]

\* lines 29-52 on a text given as a sequence of atoms: None and "" give "",
\* a leading and a trailing "$" are removed, LaTeX commands are replaced
render_atom(c) ==
    CASE c = "\\times" -> "x"
      [] c = "\\le" -> "<="
      [] c = "\\ge" -> ">="
      [] OTHER -> c

RECURSIVE drop_dollar_left(_)
drop_dollar_left(s) ==
    IF s = << >> THEN s
    ELSE IF Head(s) = "$" THEN Tail(s)
    ELSE IF Head(s) = WS
         THEN LET r == drop_dollar_left(Tail(s)) IN
              IF r = Tail(s) THEN s ELSE r
    ELSE s

RECURSIVE drop_dollar_right(_)
drop_dollar_right(s) ==
    IF s = << >> THEN s
    ELSE LET last == s[Len(s)]
             init == SubSeq(s, 1, Len(s) - 1)
         IN  IF last = "$" THEN init
             ELSE IF last = WS
                  THEN LET r == drop_dollar_right(init) IN
                       IF r = init THEN s ELSE r
             ELSE s

render_simple_math(text) ==
    IF text = << >> \/ text = NoneText THEN << >>
    ELSE LET t == drop_dollar_right(drop_dollar_left(text))
         IN  [i \in DOMAIN t |-> render_atom(t[i])]

load_paper_latest(id) ==
    IF paper_id \in DOMAIN snapshots THEN snapshots[paper_id] ELSE snapshots[id]

\* lines 799-800 and 829-830: json.load of static/papers/<paper_id>.json
load_paper(id) == snapshots[id]

\* line 808 raises KeyError when a question lacks one of the three keys
word_keys == { "question_text", "marks", "difficulty" }

\* lines 807-812: the paragraphs of question number i
word_paragraphs(i, q) ==
    [n |-> i, question_text |-> q.question_text, marks |-> q.marks,
     difficulty |-> q.difficulty,
     options |-> IF HasKey(q, "question_type")
                    /\ q.question_type \in { MCQ, MultipleChoice }
                    /\ HasKey(q, "options")
                 THEN q.options ELSE << >>]

\* lines 795-821
download_word(id) ==
    IF id \notin DOMAIN snapshots THEN NotFound
    ELSE LET paper == load_paper(id) IN
         IF \E i \in DOMAIN paper.questions :
                ~(word_keys \subseteq DOMAIN paper.questions[i])
         THEN ServerError
         ELSE [status |-> 200, download_name |-> id,
               doc |-> [i \in DOMAIN paper.questions |->
                           word_paragraphs(i, paper.questions[i])]]

\* lines 854-873: the question and the answer paragraph of question number i
\* (the explanation paragraph, lines 857 and 875-884, is drawn from the
\* snapshot in the same way and is left out)
answer_key_paragraphs(i, q) ==
    [n |-> i,
     question_text |-> render_simple_math(
         IF HasKey(q, "question_text") THEN q.question_text ELSE << >>),
     answer |-> render_simple_math(
         IF HasKey(q, "answer") THEN << q.answer >>
         ELSE << "Answer not available" >>)]

\* lines 824-894
download_answer_key(id) ==
    IF id \notin DOMAIN snapshots THEN NotFound
    ELSE LET paper == load_paper(id) IN
         [status |-> 200, download_name |-> id,
          doc |-> [i \in DOMAIN paper.questions |->
                      answer_key_paragraphs(i, paper.questions[i])]]

\* an entry of export_log: the route, the paper_id asked for, what was
\* returned, and the snapshot files present when it was served
export_entry(kind, id, result) ==
    [kind |-> kind, paper_id |-> id, result |-> result,
     present |-> DOMAIN snapshots]

Logged(entry) ==
    /\ \/ entry \in export_log
       \/ Cardinality(export_log) < MaxExports
    /\ export_log' = export_log \cup { entry }
    /\ UNCHANGED << pc, qdist, topic_present, chapters, attempts, raw_text,
                    draft, questions, picked, query, fi,
                    existing_question_texts, next_id, bank, papers,
                    paper_questions, paper_id, pdf_name, snapshots, pdf_files,
                    response, db_error,
                    arg_label, ret_label, reqs, clock >>

\* GET /api/download/word/<paper_id>
DownloadWord ==
    \E id \in PaperIds : Logged(export_entry("word", id, download_word(id)))

\* GET /api/download/answer_key/<paper_id>
DownloadAnswerKey ==
    \E id \in PaperIds :
        Logged(export_entry("answer_key", id, download_answer_key(id)))

\* the request has ended (response, or exception after line 453); the next
\* POST /api/generate starts with fresh locals and the tables and files left
NextRequest ==
    /\ pc \in { "Done", "Failed", "Crashed" }
    /\ Cardinality(papers) < MaxPapers
    /\ pc' = "Idle"
    /\ qdist' = << >>
    /\ topic_present' = FALSE
    /\ chapters' = << >>
    /\ attempts' = << >>
    /\ raw_text' = NoRaw
    /\ draft' = << >>
    /\ questions' = << >>
    /\ picked' = << >>
    /\ query' = Unbound
    /\ fi' = 0
    /\ existing_question_texts' = {}
    /\ paper_id' = NoPaper
    /\ pdf_name' = NoPaper
    /\ response' = NoResponse
    /\ db_error' = "none"
    /\ UNCHANGED << next_id, bank, papers, paper_questions, snapshots,
                    pdf_files, export_log,
                    arg_label, ret_label, reqs, clock >>

Next ==
    \/ Receive
    \/ ApiKeyTest
    \/ GenerateOk
    \/ GenerateFail
    \/ ParseDraft
    \/ Reconcile
    \/ SaveQuestions
    \/ FallbackStart
    \/ BankStep
    \/ Synthesize
    \/ PersistPaper
    \/ PersistPaperQuestions
    \/ WriteSnapshot
    \/ RenderPdf
    \/ Respond

Spec == Init /\ [][Next]_vars

\* the payloads and drafts of the requests that run beside the exports
ExportQuotas ==
    { << >>,
      << [label |-> MCQ, count |-> 2, marks |-> 1] >>,
      << [label |-> Short, count |-> 2, marks |-> 1] >> }

ExportRawTexts ==
    { NoRaw,
      [whole |-> Invalid, fence |-> NoFence],
      [whole |-> JsonArray(<< [type |-> MCQ, question |-> TextC,
                               options |-> Options(0), marks |-> 2,
                               answer |-> "o1"] >>),
       fence |-> NoFence] }

ExportRequests ==
    /\ qdist \in ExportQuotas
    /\ chapters = << >>
    /\ ~topic_present
    /\ raw_text \in ExportRawTexts

GenerateStep == Next /\ ExportRequests'

NextExport ==
    \/ GenerateStep
    \/ NextRequest
    \/ DownloadWord
    \/ DownloadAnswerKey

SpecExport == Init /\ [][NextExport]_vars

-----------------------------------------------------------------------------
(* _normalize_qtype called on its own                                      *)

Blanks(n) == [i \in 1 .. n |-> WS]

\* labels: the synonyms, their spellings in other case or with other
\* spacing, unknown labels, the empty string and None
BareLabels ==
    { MCQ, MultipleChoice, FillInTheBlanks, Fill, ShortAnswer, Short,
      LongAnswer, Long, Matching, Match, MatchTheFollowing, CaseStudy, Case,
      Essay, << "mcq" >>, << "short", " ", "answer" >>,
      << "Short", " ", " ", "Answer" >>, << "True", "/", "False" >>, << >> }

LabelInputs ==
    { Blanks(l) \o b \o Blanks(r) : b \in BareLabels, l, r \in 0 .. MaxPad }
    \cup { NoneText }

Normalize ==
    /\ \E l \in LabelInputs :
          /\ arg_label' = l
          /\ ret_label' = normalize_qtype(l)
    /\ UNCHANGED << pc, qdist, topic_present, chapters, attempts, raw_text,
                    draft, questions, picked, query, fi,
                    existing_question_texts, next_id, bank, papers,
                    paper_questions, paper_id, pdf_name, snapshots, pdf_files,
                    response, db_error, export_log, reqs, clock >>

SpecNormalize == Init /\ [][Normalize]_vars

-----------------------------------------------------------------------------
(* generate_paper, lines 551-791, run by requests in parallel: each request *)
(* has its own locals; the tables and the directory static/papers are       *)
(* shared.  The requests interleave at the commits and the file writes.     *)

\* what datetime.now().strftime('%Y%m%d_%H%M%S') gives, second by second
ClockSeconds == << "20261105_101500", "20261105_101501" >>

\* the committed row of table questions with the id
Row(id) == CHOOSE r \in InitialBank : r.id = id

\* lists `questions` with which a request reaches line 551: one bank
\* question; one basic question; a bank question and a basic question
ComposedLists ==
    { << as_dict(Row(2)) >>,
      << basic_question >>,
      << as_dict(Row(7)), basic_question >> }

\* the request r with its locals changed
Moved(r, rec) == reqs' = [reqs EXCEPT ![r] = rec]

\* lines 165-550: the request arrives and composes its list
ParCompose(r) ==
    /\ reqs[r].pc = "Idle"
    /\ \E qs \in ComposedLists :
          Moved(r, [reqs[r] EXCEPT !.pc = "Compose", !.questions = qs])
    /\ UNCHANGED << papers, paper_questions, snapshots, pdf_files, clock >>

\* lines 551-571: paper_id, pdf_filename, the Paper row and its commit;
\* papers.paper_id is unique (models.py 94)
ParPersistPaper(r) ==
    /\ reqs[r].pc = "Compose"
    /\ \E id \in PaperIds, ok \in BOOLEAN :
          LET now == ClockSeconds[clock] IN
          IF ok /\ id \notin { p.paper_id : p \in papers }
          THEN /\ papers' = papers \cup { paper_entry(id, now, reqs[r].questions) }
               /\ Moved(r, [reqs[r] EXCEPT !.pc = "PaperSaved",
                                            !.paper_id = id,
                                            !.pdf_name = now])
          ELSE /\ papers' = papers
               /\ Moved(r, [reqs[r] EXCEPT !.pc = "Failed",
                                            !.paper_id = id,
                                            !.pdf_name = now,
                                            !.response = ServerError])
    /\ UNCHANGED << paper_questions, snapshots, pdf_files, clock >>

\* lines 573-584
ParPersistPaperQuestions(r) ==
    /\ reqs[r].pc = "PaperSaved"
    /\ \E ok \in BOOLEAN :
          IF ok
          THEN /\ paper_questions' =
                     paper_questions \o
                     [i \in DOMAIN reqs[r].questions |->
                         paper_question(reqs[r].paper_id, reqs[r].questions[i])]
               /\ Moved(r, [reqs[r] EXCEPT !.pc = "Persisted"])
          ELSE /\ paper_questions' = paper_questions
               /\ Moved(r, [reqs[r] EXCEPT !.pc = "Failed",
                                            !.response = ServerError])
    /\ UNCHANGED << papers, snapshots, pdf_files, clock >>

\* lines 586-607
ParWriteSnapshot(r) ==
    /\ reqs[r].pc = "Persisted"
    /\ snapshots' = (reqs[r].paper_id :> snapshot(reqs[r].paper_id, reqs[r].questions))
                     @@ snapshots
    /\ Moved(r, [reqs[r] EXCEPT !.pc = "Snapshot"])
    /\ UNCHANGED << papers, paper_questions, pdf_files, clock >>

\* lines 616-778: write_pdf opens static/papers/<pdf_filename> for writing;
\* a file of that name is replaced
ParRenderPdf(r) ==
    /\ reqs[r].pc = "Snapshot"
    /\ pdf_files' = (reqs[r].pdf_name :>
                        render_questions(questions_sorted(reqs[r].questions)))
                     @@ pdf_files
    /\ Moved(r, [reqs[r] EXCEPT !.pc = "Rendered"])
    /\ UNCHANGED << papers, paper_questions, snapshots, clock >>

\* lines 781-791
ParRespond(r) ==
    /\ reqs[r].pc = "Rendered"
    /\ Moved(r, [reqs[r] EXCEPT
                    !.pc = "Done",
                    !.response = response_body(reqs[r].questions,
                                               reqs[r].pdf_name,
                                               reqs[r].paper_id)])
    /\ UNCHANGED << papers, paper_questions, snapshots, pdf_files, clock >>

\* a second passes
Tick ==
    /\ clock < Len(ClockSeconds)
    /\ clock' = clock + 1
    /\ UNCHANGED << reqs, papers, paper_questions, snapshots, pdf_files >>

\* the locals of the single request of Spec, which does not run here
SingleIdle ==
    UNCHANGED << pc, qdist, topic_present, chapters, attempts, raw_text, draft,
                 questions, picked, query, fi, existing_question_texts,
                 next_id, bank, paper_id, pdf_name, response, db_error,
                 export_log, arg_label, ret_label >>

NextParallel ==
    \/ \E r \in Requests : ParCompose(r) /\ SingleIdle
    \/ \E r \in Requests : ParPersistPaper(r) /\ SingleIdle
    \/ \E r \in Requests : ParPersistPaperQuestions(r) /\ SingleIdle
    \/ \E r \in Requests : ParWriteSnapshot(r) /\ SingleIdle
    \/ \E r \in Requests : ParRenderPdf(r) /\ SingleIdle
    \/ \E r \in Requests : ParRespond(r) /\ SingleIdle
    \/ Tick /\ SingleIdle

SpecParallel == Init /\ [][NextParallel]_vars

-----------------------------------------------------------------------------
(* Properties *)

\* a quota as the specification defines it: no negative count, marks positive
ValidQuota(qd) == \A i \in DOMAIN qd : qd[i].count >= 0 /\ qd[i].marks > 0

Sources(qs) == { qs[i].source : i \in DOMAIN qs }

\* C1 (total-count guarantee): for a request with a valid quota, the list
\* handed to the Paper insert, the Paper row, the snapshot and the response
\* all hold exactly the sum of the requested counts, whatever the generative
\* source and the bank supplied.
C1_TotalCount ==
    ValidQuota(qdist) =>
        /\ pc = "Compose" => Len(questions) = total_needed
        /\ \A p \in papers : p.total_questions = total_needed
        /\ \A id \in DOMAIN snapshots :
              /\ snapshots[id].summary.total_questions = total_needed
              /\ Len(snapshots[id].questions) = total_needed
        /\ response.status = 200 =>
              /\ response.summary.total_questions = total_needed
              /\ Len(response.questions) = total_needed

\* a finished request whose paper mixes generated, bank and basic questions
C1_Witness ==
    /\ pc = "Done"
    /\ ValidQuota(qdist)
    /\ total_needed >= 3
    /\ response.summary.total_questions = total_needed
    /\ Sources(response.questions) = { "AI", "Database", "Fallback" }

\* C2 (failure absorption): no failure of the draft, the reconciliation or
\* the bank fallback aborts the request; it always goes on to composition.
C2_FailureAbsorbed == ValidQuota(qdist) => pc # "Crashed"

\* C3 (reconcile within quota): reconcile appends at most `count` candidates
\* for a quota entry, and every candidate appended for an entry has the
\* entry's normalized type.
C3_ReconcileWithinQuota ==
    pc = "Reconciled" =>
        \A i \in DOMAIN qdist :
            /\ qdist[i].count >= 0 => Len(picked[i]) <= qdist[i].count
            /\ \A k \in DOMAIN picked[i] :
                  normalize_qtype(picked[i][k].type) = normalize_qtype(qdist[i].label)

\* an entry filled to its count while the draft held more candidates of its
\* type with different texts
C3_Witness ==
    /\ pc = "Reconciled"
    /\ ValidQuota(qdist)
    /\ \E i \in DOMAIN qdist :
          /\ qdist[i].count >= 1
          /\ Len(picked[i]) = qdist[i].count
          /\ Cardinality({ question_hash(draft[k]) : k \in
                 { n \in DOMAIN draft :
                     normalize_qtype(draft[n].type) = normalize_qtype(qdist[i].label) } })
             > qdist[i].count

\* the normalized text of the specification: trimmed, lowercased, runs of
\* whitespace collapsed to one blank
RECURSIVE collapse(_)
collapse(s) ==
    IF Len(s) < 2 THEN s
    ELSE IF s[1] = WS /\ s[2] = WS THEN collapse(Tail(s))
    ELSE << s[1] >> \o collapse(Tail(s))

normalized_text(s) == collapse(lower(strip(s)))

\* the key the code compares: trimmed and lowercased
folded_text(s) == lower(strip(s))

\* C4 as stated (deduplication with whitespace runs collapsed): no two
\* selected candidates have the same trimmed, lowercased, whitespace-collapsed
\* text.
C4_DedupCollapsed ==
    (pc = "Reconciled" /\ ValidQuota(qdist)) =>
        \A i, j \in DOMAIN questions :
            i # j => normalized_text(questions[i].question)
                     # normalized_text(questions[j].question)

\* C4 as amended (deduplication on the trimmed, lowercased text): no two
\* selected candidates have the same trimmed and lowercased text, whatever
\* their types; the set is shared by all quota entries, and a text selected
\* for a later entry was not taken from an earlier entry only because that
\* entry was already full.
C4_Dedup ==
    pc = "Reconciled" =>
        /\ \A i, j \in DOMAIN questions :
              i # j => folded_text(questions[i].question)
                       # folded_text(questions[j].question)
        /\ \A j \in DOMAIN qdist : \A k \in DOMAIN picked[j] :
              \A i \in 1 .. (j - 1) : \A n \in DOMAIN draft :
                  ( /\ normalize_qtype(draft[n].type) = normalize_qtype(qdist[i].label)
                    /\ folded_text(draft[n].question)
                       = folded_text(picked[j][k].question) )
                  => Len(picked[i]) >= qdist[i].count

\* two candidates of different types with one text, both types requested,
\* and one of the two selected
C4_Witness ==
    /\ pc = "Reconciled"
    /\ ValidQuota(qdist)
    /\ Len(draft) = 2
    /\ folded_text(draft[1].question) = folded_text(draft[2].question)
    /\ normalize_qtype(draft[1].type) # normalize_qtype(draft[2].type)
    /\ Len(qdist) = 2
    /\ \A i \in DOMAIN qdist :
          /\ qdist[i].count >= 1
          /\ \E n \in DOMAIN draft :
                normalize_qtype(draft[n].type) = normalize_qtype(qdist[i].label)
    /\ Len(questions) = 1

\* C5 (MCQ invariant): every stored or rendered question of type MCQ has
\* exactly 4 options.
C5_McqFourOptions ==
    ValidQuota(qdist) =>
    /\ \A r \in bank : r.question_type = MCQ => Len(r.options) = 4
    /\ \A i \in DOMAIN paper_questions :
          paper_questions[i].type = MCQ => Len(paper_questions[i].options) = 4
    /\ \A id \in DOMAIN snapshots : \A i \in DOMAIN snapshots[id].questions :
          snapshots[id].questions[i].question_type = MCQ
          => Len(snapshots[id].questions[i].options) = 4
    /\ \A f \in DOMAIN pdf_files : \A i \in DOMAIN pdf_files[f] :
          pdf_files[f][i].section = MultipleChoice
          => Len(pdf_files[f][i].options) = 4

\* the canonical types in the order of the sections
canonical_order ==
    << MCQ, FillInTheBlanks, ShortAnswer, LongAnswer, Matching, CaseStudy >>

\* position of a label's canonical type; unrecognized labels come last
CanonicalRank(label) ==
    LET at == { i \in DOMAIN canonical_order :
                  canonical_order[i] = normalize_qtype(label) }
    IN  IF at = {} THEN Len(canonical_order) + 1 ELSE CHOOSE i \in at : TRUE

\* C6 (ordering): the questions of the snapshot and of the response are
\* grouped by canonical type in the order MCQ, Fill in the Blanks, Short
\* Answer, Long Answer, Matching, Case Study, unrecognized types last; the
\* PDF lists its sections in that order and numbers its questions 1, 2, 3,
\* ... without starting again in a section.
C6_Ordering ==
    /\ \A id \in DOMAIN snapshots :
          LET qs == snapshots[id].questions IN
          \A i, j \in DOMAIN qs :
              i < j => CanonicalRank(qs[i].question_type)
                       <= CanonicalRank(qs[j].question_type)
    /\ response.status = 200 =>
          \A i, j \in DOMAIN response.questions :
              i < j => CanonicalRank(response.questions[i].type)
                       <= CanonicalRank(response.questions[j].type)
    /\ \A f \in DOMAIN pdf_files :
          /\ \A n \in DOMAIN pdf_files[f] : pdf_files[f][n].q_num = n
          /\ \A i, j \in DOMAIN pdf_files[f] :
                i < j => CanonicalRank(pdf_files[f][i].section)
                         <= CanonicalRank(pdf_files[f][j].section)

\* a finished paper of generated, bank and basic questions that the sort had
\* to reorder and whose PDF has more than one section
C6_Witness ==
    /\ pc = "Done"
    /\ Sources(response.questions) = { "AI", "Database", "Fallback" }
    /\ snapshots[paper_id].questions # questions
    /\ LET doc == pdf_files[pdf_name] IN
          /\ Len(doc) >= 3
          /\ doc[1].section # doc[Len(doc)].section
          /\ doc[Len(doc)].q_num = Len(doc)

\* the labels of the synonym table of the normalizer
SynonymTable ==
    { MCQ, MultipleChoice, FillInTheBlanks, Fill, ShortAnswer, Short,
      LongAnswer, Long, Matching, Match, MatchTheFollowing, CaseStudy, Case }

Unrecognized(label) == strip(label) \notin SynonymTable

CountSource(qs, src) == Cardinality({ i \in DOMAIN qs : qs[i].source = src })

AllFailed == Len(attempts) = Len(ModelChain) /\ \A i \in DOMAIN attempts : ~attempts[i].ok

C9_InvalidQuotaRejected ==
    ~ValidQuota(qdist) =>
        /\ papers = {}
        /\ paper_questions = << >>
        /\ DOMAIN snapshots = {}
        /\ DOMAIN pdf_files = {}
        /\ response.status # 200

\* C10 (PersistenceFailure): when a database write of the request fails, the
\* request fails: nothing of it stays stored, no file is written and no
\* paper is returned.
C10_PersistenceFailureRollsBack ==
    (db_error # "none" /\ ValidQuota(qdist) /\ total_needed >= 1) =>
        /\ papers = {}
        /\ paper_questions = << >>
        /\ DOMAIN snapshots = {}
        /\ DOMAIN pdf_files = {}
        /\ response.status # 200

\* the tables and files that outlive a request
Stored == << bank, papers, paper_questions, snapshots, pdf_files, next_id >>

\* C11 (idempotent export): an export of a stored paper returns what the
\* snapshot file of that paper_id holds and nothing else, so all exports of
\* one route for one paper_id return the same content, whatever requests run
\* between them; a snapshot file, once written, is never rewritten, and an
\* export changes no table and no file.
C11_IdempotentExport ==
    /\ [](\A a, b \in export_log :
            ( /\ a.kind = b.kind
              /\ a.paper_id = b.paper_id
              /\ a.result.status # 404
              /\ b.result.status # 404 )
            => a.result = b.result)
    /\ [][ /\ \A id \in DOMAIN snapshots :
                id \in DOMAIN snapshots' /\ snapshots'[id] = snapshots[id]
           /\ (DownloadWord \/ DownloadAnswerKey) => UNCHANGED Stored ]_vars

\* the same export of one paper served before and after another request
\* stored its own paper, with the same content
C11_Witness ==
    \E a, b \in export_log :
        /\ a.kind = b.kind
        /\ a.paper_id = b.paper_id
        /\ a.result.status = 200
        /\ a.result = b.result
        /\ Len(a.result.doc) >= 1
        /\ a.present # b.present
        /\ Cardinality(DOMAIN snapshots) = 2

RowsOf(id) == SelectSeq(paper_questions, LAMBDA r : r.paper_id = id)

\* C12 (aggregates): in every stored paper the recorded number of questions
\* is the length of the paper's ordered question sequence and the recorded
\* total of marks is the sum of the marks of those questions: in the
\* snapshot, in the Paper row of the same paper_id, in the response summary,
\* and over the paper's PaperQuestion rows once they are stored.
C12_Aggregates ==
    /\ \A id \in DOMAIN snapshots :
          LET s == snapshots[id] IN
          /\ s.summary.total_questions = Len(s.questions)
          /\ s.summary.total_marks = SumMarks(s.questions)
          /\ \A p \in papers :
                p.paper_id = id =>
                    /\ p.total_questions = Len(s.questions)
                    /\ p.total_marks = SumMarks(s.questions)
    /\ \A p \in papers :
          RowsOf(p.paper_id) # << >> =>
              /\ Len(RowsOf(p.paper_id)) = p.total_questions
              /\ SumMarks(RowsOf(p.paper_id)) = p.total_marks
    /\ response.status = 200 =>
          /\ response.summary.total_questions = Len(response.questions)
          /\ response.summary.total_marks = SumMarks(response.questions)

\* a finished paper of questions with different marks, from all three
\* sources, whose total of marks is not the one the quota would give
C12_Witness ==
    /\ pc = "Done"
    /\ ValidQuota(qdist)
    /\ Len(response.questions) >= 3
    /\ Sources(response.questions) = { "AI", "Database", "Fallback" }
    /\ response.summary.total_marks # SumQuotaMarks(qdist)
    /\ response.summary.total_marks = SumMarks(snapshots[paper_id].questions)
    /\ snapshots[paper_id].questions # questions

\* the synonym table, label by label
CanonicalOf(l) ==
    CASE l = MCQ -> MCQ
      [] l = MultipleChoice -> MCQ
      [] l = FillInTheBlanks -> FillInTheBlanks
      [] l = Fill -> FillInTheBlanks
      [] l = ShortAnswer -> ShortAnswer
      [] l = Short -> ShortAnswer
      [] l = LongAnswer -> LongAnswer
      [] l = Long -> LongAnswer
      [] l = Matching -> Matching
      [] l = Match -> Matching
      [] l = MatchTheFollowing -> Matching
      [] l = CaseStudy -> CaseStudy
      [] l = Case -> CaseStudy

\* the argument without its leading and trailing blanks, "" for None
Trimmed(l) == IF l = NoneText THEN << >> ELSE strip(l)

Called == ret_label # NoCall

\* C13 as stated (normalizer): a label that is no listed synonym is returned
\* unchanged, identical to the input given.
C13_UnknownUnchanged ==
    (Called /\ Trimmed(arg_label) \notin SynonymTable) => ret_label = arg_label

\* C13 as amended (normalizer): every call returns; a label whose trimmed
\* form is a listed synonym, in exactly that spelling, gives the synonym's
\* canonical type; every other label gives its trimmed form, and None gives
\* the empty string.
C13_Normalizer ==
    Called =>
        IF Trimmed(arg_label) \in SynonymTable
        THEN ret_label = CanonicalOf(Trimmed(arg_label))
        ELSE ret_label = Trimmed(arg_label)

\* an unknown label given with blanks around it and returned without them
C13_Witness ==
    /\ Called
    /\ Trimmed(arg_label) \notin SynonymTable
    /\ Trimmed(arg_label) # << >>
    /\ arg_label # Trimmed(arg_label)
    /\ ret_label = Trimmed(arg_label)

\* the text gives a list of question objects (or an empty dict, which the
\* loops take for an empty list): directly, or in its ```json block when the
\* whole text is no JSON
Usable(raw) ==
    \/ raw.whole.kind \in { "array", "empty_object" }
    \/ raw.whole.kind = "invalid" /\ raw.fence.kind \in { "array", "empty_object" }

\* the parsed draft is the whole text's list when the whole text is JSON,
\* and the list of the ```json block only otherwise
ParsedInOrder ==
    pc \in { "Drafted", "Reconciled" } =>
        /\ Usable(raw_text)
        /\ raw_text.whole.kind = "array" => draft = raw_text.whole.items
        /\ raw_text.whole.kind = "empty_object" => draft = << >>
        /\ raw_text.whole.kind = "invalid" => draft = raw_text.fence.items

\* the request went on after a text that gave no usable list
Malformed ==
    /\ pc \notin { "Idle", "Requested", "Generating", "Responded", "Drafted",
                   "Reconciled" }
    /\ raw_text # NoRaw

\* a malformed draft leaves no generated question behind
MalformedIsEmpty ==
    Malformed =>
        /\ ~Usable(raw_text)
        /\ draft = << >>
        /\ bank = InitialBank
        /\ \A k \in DOMAIN questions : questions[k].source # "AI"

\* C14 (draft parsing): the text is parsed as JSON first and its fenced
\* block only when that fails; a text that gives no usable question list is
\* taken as an empty candidate list, and the request is never aborted after
\* it.
C14_DraftParsing ==
    /\ ParsedInOrder
    /\ MalformedIsEmpty
    /\ (Malformed /\ ValidQuota(qdist)) => pc # "Crashed"

\* one pass of the fallback loop, for a valid quota
BankPass == pc = "BankLoop" /\ fi \in DOMAIN qdist /\ ValidQuota(qdist)

\* the questions the step appended to the list
Appended == SubSeq(questions', Len(questions) + 1, Len(questions'))

\* a pass for an entry without shortfall leaves the bank alone: it builds and
\* runs no query and ends without an exception
BankOnlyOnShortfall ==
    (BankPass /\ missing_for_type(questions, qdist[fi]) = 0) =>
        /\ questions' = questions
        /\ query' = query
        /\ pc' # "Crashed"

\* what a pass appends are bank questions of the entry's canonical type, marks
\* and the request's language, no more than the entry's shortfall
BankAddsMatch ==
    BankPass =>
        /\ Len(Appended) <= missing_for_type(questions, qdist[fi])
        /\ \A k \in DOMAIN Appended :
              /\ Appended[k].source = "Database"
              /\ Appended[k].question_type = normalize_qtype(qdist[fi].label)
              /\ Appended[k].marks = qdist[fi].marks
              /\ Appended[k].language = paper_language
              /\ \E r \in bank : r.id = Appended[k].id

\* what a pass appends differs, in the trimmed and lowercased text, from
\* every question selected before and from the others appended
BankAddsFolded ==
    BankPass =>
        \A k \in DOMAIN Appended :
            /\ \A i \in DOMAIN questions :
                  folded_text(questions[i].question_text)
                  # folded_text(Appended[k].question_text)
            /\ \A j \in DOMAIN Appended :
                  j # k => folded_text(Appended[j].question_text)
                           # folded_text(Appended[k].question_text)

\* the same with whitespace runs collapsed
BankAddsNormalized ==
    BankPass =>
        \A k \in DOMAIN Appended :
            /\ \A i \in DOMAIN questions :
                  normalized_text(questions[i].question_text)
                  # normalized_text(Appended[k].question_text)
            /\ \A j \in DOMAIN Appended :
                  j # k => normalized_text(Appended[j].question_text)
                           # normalized_text(Appended[k].question_text)

BankHolds == [][BankAddsMatch /\ BankAddsFolded]_vars

\* C15 (bank fallback selection): the bank is consulted only for quota
\* entries with a shortfall; the bank questions added for an entry have the
\* entry's canonical type, its marks and the request's language, a
\* normalized text different from that of every question already selected,
\* and are no more than the shortfall.
C15_BankSelection ==
    [][BankOnlyOnShortfall /\ BankAddsMatch /\ BankAddsNormalized]_vars

-----------------------------------------------------------------------------
Synthesized(qs) ==
    { k \in DOMAIN qs : HasKey(qs[k], "source") /\ qs[k].source = "Fallback" }

\* a step after which the list holds a synthesized question it did not
\* hold before
SynthPass == Synthesized(questions') # Synthesized(questions)

-----------------------------------------------------------------------------
\* the text of a question of the list: generated and bank questions carry
\* question_text, basic questions carry question
TextOf(q) == IF HasKey(q, "question_text") THEN q.question_text ELSE q.question

\* C17 (final set deduplicated): in a composed paper no two questions, of
\* any provenance, have the same normalized question text.
C17_FinalDeduplicated ==
    (pc \in { "Compose", "Done" } /\ ValidQuota(qdist)) =>
        \A i, j \in DOMAIN questions :
            i # j => normalized_text(TextOf(questions[i]))
                     # normalized_text(TextOf(questions[j]))

-----------------------------------------------------------------------------
\* rows of table questions of the entry's type, marks and language that lie
\* in the scope of the request: the chapters named, or the subject and class
ScopeRows(info) ==
    { r \in bank :
        /\ r.question_type = normalize_qtype(info.label)
        /\ r.marks = info.marks
        /\ r.language = paper_language
        /\ IF scope_filter = "chapter_id" THEN r.chapter_id \in chapter_id_list
           ELSE r \in matching_rows(base_query(info)) }

\* those of them whose text no selected question has
FreshRows(info) ==
    { r \in ScopeRows(info) :
        lower(strip(r.question_text)) \notin existing_question_texts }

\* a pass for an entry with a shortfall that ends without an exception
ShortfallPass ==
    /\ BankPass
    /\ missing_for_type(questions, qdist[fi]) > 0
    /\ pc' # "Crashed"

\* the query of the pass carries one scope filter, the first that applies of
\* chapter ids, topic, subject and class
OneScope ==
    ShortfallPass =>
        query'.filters =
            << IF chapter_id_list # {} THEN "chapter_id"
               ELSE IF topic_present THEN "topic"
               ELSE "subject_class" >>

\* under the chapter scope and under the subject and class scope the pass
\* adds bank questions when the bank has fresh rows in scope
ScopeQueried(scope) ==
    (ShortfallPass /\ scope_filter = scope /\ FreshRows(qdist[fi]) # {}) =>
        /\ Appended # << >>
        /\ \A k \in DOMAIN Appended : Appended[k].source = "Database"

\* the parts that hold of every pass
ScopeHolds == [][OneScope /\ ScopeQueried("subject_class")]_vars

\* C18 (scope filter of the bank fallback): a pass for an entry with a
\* shortfall applies exactly one scope, by priority chapter ids, topic,
\* subject and class, and under the scope the bank is queried and its fresh
\* matching rows are added before any basic question is used.
C18_ScopeFilter ==
    [][OneScope /\ ScopeQueried("chapter_id") /\ ScopeQueried("subject_class")]_vars

-----------------------------------------------------------------------------
\* the moves between positions of the handler that follow the sequence
\* Requested, Drafted, Reconciled, Backfilled, Composed, Persisted, Rendered
StageMoves ==
    { << "Idle", "Requested" >>, << "Requested", "Generating" >>,
      << "Generating", "Responded" >>, << "Responded", "Drafted" >>,
      << "Drafted", "Reconciled" >>, << "Reconciled", "Fallback" >>,
      << "Fallback", "BankLoop" >>, << "Fallback", "Compose" >>,
      << "BankLoop", "Synth" >>, << "Synth", "Compose" >>,
      << "Compose", "PaperSaved" >>, << "PaperSaved", "Persisted" >>,
      << "Persisted", "Snapshot" >>, << "Snapshot", "Rendered" >>,
      << "Rendered", "Done" >> }

\* positions at which the request has ended with an error response
Ended == { "Failed", "Crashed" }

\* a step moves to the next position of the sequence or ends the request
NoSkip ==
    (pc' # pc /\ pc' \notin Ended /\ ValidQuota(qdist') /\ qdist' # << >>)
        => << pc, pc' >> \in StageMoves

\* the PaperQuestion rows of every paper stand in canonical type order
RowsSorted ==
    \A p \in papers :
        LET rows == RowsOf(p.paper_id) IN
        \A i, j \in DOMAIN rows :
            i < j => CanonicalRank(rows[i].type) <= CanonicalRank(rows[j].type)

\* the PDF and the response exist only for a paper whose rows are stored
RenderedAfterPersisted ==
    /\ \A f \in DOMAIN pdf_files :
          f = pdf_name => /\ paper_id \in { p.paper_id : p \in papers }
                          /\ Len(RowsOf(paper_id)) = Len(questions)
    /\ response.status = 200 =>
          /\ paper_id \in { p.paper_id : p \in papers }
          /\ Len(RowsOf(paper_id)) = Len(questions)
          /\ pdf_name \in DOMAIN pdf_files
          /\ paper_id \in DOMAIN snapshots

\* no position is entered twice: positions only move forward
StageRank(p) ==
    CASE p = "Idle" -> 0
      [] p \in { "Requested", "Generating", "Responded" } -> 1
      [] p = "Drafted" -> 2
      [] p = "Reconciled" -> 3
      [] p \in { "Fallback", "BankLoop", "Synth" } -> 4
      [] p = "Compose" -> 5
      [] p \in { "PaperSaved", "Persisted" } -> 6
      [] p \in { "Snapshot", "Rendered", "Done" } -> 7
      [] OTHER -> 8

NoRevisit == StageRank(pc') >= StageRank(pc)

\* the parts that hold
StageOrderHolds == [][NoRevisit]_vars /\ [] RenderedAfterPersisted

\* C19 (request state machine): a request moves through Requested, Drafted,
\* Reconciled, Backfilled, Composed, Persisted, Rendered in this order,
\* skipping and revisiting none; the Paper and PaperQuestion rows are stored
\* after the questions are sorted into canonical type order, so the rows
\* stand in that order; the PDF and the response come after the rows.
C19_StateMachine ==
    /\ [][NoSkip /\ NoRevisit]_vars
    /\ [] RowsSorted
    /\ [] RenderedAfterPersisted

-----------------------------------------------------------------------------
\* the rows of table questions written by the request
BatchRows == bank \ InitialBank

\* the commits come in the order question batch, Paper row, PaperQuestion
\* rows, and a commit writes the rows of its own step only
CommitOrder ==
    /\ bank' # bank =>
          /\ pc = "Reconciled"
          /\ papers = {} /\ paper_questions = << >>
          /\ UNCHANGED << papers, paper_questions >>
    /\ papers' # papers =>
          /\ pc = "Compose"
          /\ paper_questions = << >>
          /\ UNCHANGED << bank, paper_questions >>
          /\ \E p \in papers' : p.paper_id = paper_id' /\ papers' = papers \cup {p}
    /\ paper_questions' # paper_questions =>
          /\ pc = "PaperSaved"
          /\ paper_id \in { p.paper_id : p \in papers }
          /\ UNCHANGED << bank, papers >>

\* a step in which a write raises leaves no row of that step
FailedStepLeavesNothing ==
    db_error' # db_error => UNCHANGED << bank, papers, paper_questions >>

\* the bank holds all of the request's generated questions or none
BatchAllOrNone ==
    \/ BatchRows = {}
    \/ /\ pc \notin { "Idle", "Requested", "Generating", "Responded", "Drafted",
                       "Reconciled" }
       /\ { r.id : r \in BatchRows }
          = { questions[i].id :
                i \in { k \in DOMAIN questions : questions[k].source = "AI" } }
       /\ Cardinality(BatchRows) = CountSource(questions, "AI")

\* a paper has all of its PaperQuestion rows or none
RowsAllOrNone ==
    \A p \in papers :
        Len(RowsOf(p.paper_id)) \in { 0, p.total_questions }

\* C20 (persistence steps): within a request the commits come in the order
\* question batch, Paper row, PaperQuestion rows; a step in which a write
\* raises leaves none of its rows; so the bank holds all or none of the
\* request's generated questions and a paper has all or none of its
\* PaperQuestion rows.
C20_PersistenceSteps ==
    /\ [][CommitOrder /\ FailedStepLeavesNothing]_vars
    /\ [] BatchAllOrNone
    /\ [] RowsAllOrNone

\* the commit of the PaperQuestion rows raised after the batch of two
\* generated questions and the Paper row were committed
C20_Witness ==
    /\ pc = "Failed"
    /\ db_error = "paper_questions"
    /\ ValidQuota(qdist)
    /\ Cardinality(BatchRows) = 2
    /\ papers # {}
    /\ paper_questions = << >>

-----------------------------------------------------------------------------
\* the requests that were answered with a paper
Answered == { r \in Requests : reqs[r].response.status = 200 }

\* the document a request renders from its own questions
OwnDocument(r) == render_questions(questions_sorted(reqs[r].questions))

\* the file behind the pdf_url of every answered request holds that
\* request's questions
OwnQuestions ==
    \A r \in Answered :
        /\ reqs[r].response.pdf_url \in DOMAIN pdf_files
        /\ pdf_files[reqs[r].response.pdf_url] = OwnDocument(r)

\* no two answered requests are given the same file
NotShared ==
    \A r, s \in Answered :
        r # s => reqs[r].response.pdf_url # reqs[s].response.pdf_url

\* a rendered file is never written again
NotOverwritten ==
    \A f \in DOMAIN pdf_files :
        f \in DOMAIN pdf_files' /\ pdf_files'[f] = pdf_files[f]

\* requests whose file names were taken in different seconds keep their own
\* documents
IsolatedAcrossSeconds ==
    \A r \in Answered :
        (\A s \in Requests : s # r => reqs[s].pdf_name # reqs[r].pdf_name)
            => /\ reqs[r].response.pdf_url \in DOMAIN pdf_files
               /\ pdf_files[reqs[r].response.pdf_url] = OwnDocument(r)

\* two answered requests with different questions and different file names
TwoSeconds ==
    /\ Answered = Requests
    /\ reqs[1].questions # reqs[2].questions
    /\ reqs[1].pdf_name # reqs[2].pdf_name

\* C21 (request isolation under concurrency): for requests that run in
\* parallel, also when they take their file names within the same second,
\* the document behind the pdf_url of each response holds that request's own
\* questions, and no rendered document is shared with or overwritten by
\* another request.
C21_RequestIsolation ==
    /\ [] OwnQuestions
    /\ [] NotShared
    /\ [][NotOverwritten]_vars

-----------------------------------------------------------------------------
\* the questions of the stored snapshots that satisfy P carry question_text
TextCarried(provenances) ==
    \A id \in DOMAIN snapshots :
        \A i \in DOMAIN snapshots[id].questions :
            snapshots[id].questions[i].source \in provenances
                => HasKey(snapshots[id].questions[i], "question_text")

\* generated and bank questions carry question_text
TextCarriedByGeneratedAndBank == TextCarried({ "AI", "Database" })

\* no PaperQuestion row and no question of a response has an absent text
TextStored ==
    /\ \A k \in DOMAIN paper_questions :
          paper_questions[k].question_text # NoneText
    /\ response.status = 200 =>
          \A i \in DOMAIN response.questions :
              response.questions[i].question_text # NoneText

\* the Word export of a paper whose snapshot is present ends without error
WordExportCompletes ==
    \A e \in export_log :
        (e.kind = "word" /\ e.paper_id \in e.present) => e.result.status = 200

\* C22 (question text everywhere): every question of a composed paper,
\* generated, from the bank or basic, carries its text under question_text;
\* so no PaperQuestion row and no response question has an absent text, and
\* the Word export of every paper returned by a generation, also one with
\* basic questions, ends without error.
C22_QuestionText ==
    /\ TextCarried({ "AI", "Database", "Fallback" })
    /\ TextStored
    /\ WordExportCompletes

====
